---- MODULE Spec2Model ----
(***************************************************************************)
(* Model of the retrieval store of the Data Management Assistant           *)
(* (DM/rag_store.py): the overlap chunker, the hash-gated document upsert, *)
(* PDF ingestion with a caller-supplied embedder, and cosine-distance      *)
(* search.                                                                 *)
(*                                                                         *)
(* Spec       the store: the documents and chunks tables and the calls     *)
(*            upsert_document / ingest_pdf, one after another.             *)
(* SpecSearch ingest_pdf calls followed by a search.                       *)
(* SpecChunk  simple_overlap_chunk run one loop iteration per step on      *)
(*            every input text up to MaxLen characters.                    *)
(***************************************************************************)
EXTENDS Integers, Sequences, FiniteSets, TLC

VARIABLES
    docs,         \* committed rows of table "documents"
    chunks,       \* committed rows of table "chunks"
    nextDocId,    \* next unused documents.id
    nextChunkId,  \* next unused chunks.id
    last,         \* the last call made on the store, its arguments and result
    ck,           \* the running simple_overlap_chunk call (SpecChunk)
    ct,           \* the running chunk_text call (SpecChunkText)
    ao,           \* the running ask_ollama call (SpecAnswer)
    em,           \* the running embed_texts call (SpecEmbed)
    ui,           \* the running "Ask Ollama" button handler (SpecHandler)
    tx            \* the open sessions of concurrent ingest_pdf calls (SpecConcurrent)

vars == <<docs, chunks, nextDocId, nextChunkId, last, ck, ct, ao, em, ui, tx>>
storeVars == <<docs, chunks, nextDocId, nextChunkId, last>>
clientVars == <<ct, ao, em>>

----------------------------------------------------------------------------
(* Bounds *)

\* longest input text given to simple_overlap_chunk in SpecChunk
MaxLen == 4
\* largest chunk_size and overlap tried in SpecChunk
MaxChunkSize == 3
MaxOverlap == 3
\* loop iterations of simple_overlap_chunk followed before the run is cut
MaxIter == 5
\* most sentence pieces of a text given to chunk_text
MaxSentences == 7
\* the token estimate from which chunk_text splits: 100000 in the source
\* (streamlit_/app.py line 29), scaled down to the texts tried here
TokenThreshold == 2
\* MAX_CHUNK_SIZE (streamlit_/app.py line 20): 20000 in the source, scaled
\* down to the sentences tried here
MAX_CHUNK_SIZE == 2
\* most texts given to embed_texts in one call
MaxTexts == 3
\* presses of the "Ask Ollama" button followed in SpecHandler
MaxClicks == 2
\* the value the chunks.id sequence may reach in Spec
MaxChunkId == 5
\* largest k given to search
MaxK == 2

Min(a, b) == IF a <= b THEN a ELSE b
Max(a, b) == IF a >= b THEN a ELSE b

----------------------------------------------------------------------------
(* Text.  A text is a sequence of characters; the characters that matter   *)
(* to the chunker are letters, the whitespace characters it rewrites, and  *)
(* the control characters it removes.                                      *)

Letters == {"a", "b"}
\* '\x00'..'\x08', '\x0b', '\x0c', '\x0e'..'\x1f': removed by the chunker
CtlChars == {"NUL"}
\* ' ', '\t', '\r', '\n'
WsChars == {" ", "TAB", "CR", "LF"}
Alphabet == Letters \cup {"NUL", " ", "TAB", "CR"}

\* str.replace(c, '') for every c of the control characters (line 67)
StripCtl(t) == SelectSeq(t, LAMBDA c : c \notin CtlChars)

\* text.replace('\r', '\n').replace('\t', ' ') (line 69)
MapWs(t) ==
    [i \in 1..Len(t) |-> IF t[i] = "CR" THEN "LF"
                         ELSE IF t[i] = "TAB" THEN " " ELSE t[i]]

\* ' '.join(text.split()) (line 71): whitespace runs become one space, and
\* leading and trailing whitespace goes
SplitJoin(t) ==
    LET F[i \in 0..Len(t)] ==
            IF i = 0 THEN <<>>
            ELSE IF t[i] \in WsChars THEN F[i-1]
            ELSE IF i > 1 /\ t[i-1] \in WsChars /\ F[i-1] # <<>>
                 THEN F[i-1] \o <<" ", t[i]>>
                 ELSE Append(F[i-1], t[i])
    IN F[Len(t)]

Normalize(t) == SplitJoin(MapWs(StripCtl(t)))

\* Python's text[a:b] for integers a, b (negative indices count from the end)
PySlice(t, a, b) ==
    LET n  == Len(t)
        lo == IF a < 0 THEN Max(n + a, 0) ELSE Min(a, n)
        hi == IF b < 0 THEN Max(n + b, 0) ELSE Min(b, n)
    IN IF hi <= lo THEN <<>> ELSE SubSeq(t, lo + 1, hi)

----------------------------------------------------------------------------
(* simple_overlap_chunk *)

\* The loop variables: start, chunks, and whether the loop has been left.
LoopInit == [start |-> 0, chunks |-> <<>>, done |-> FALSE]

\* the window's end not held to the text's length
WindowEnd_Unclamped(start, chunk_size, length) == start + chunk_size

\* The window's end (line 76)
WindowEnd(start, chunk_size, length) == Min(start + chunk_size, length)

\* the next window starting one character late
NextStart_Late(end, overlap) == IF end - overlap + 1 < 0 THEN 0 ELSE end - overlap + 1

\* The next window's start (lines 81-83)
NextStart(end, overlap) == IF end - overlap < 0 THEN 0 ELSE end - overlap

\* The loop test (line 75)
LoopTest(start, length) == start < length

\* One pass through the loop test and body (lines 75-83) on normalized text
ChunkStep(s, text, chunk_size, overlap) ==
    LET length == Len(text) IN
    IF ~LoopTest(s.start, length) THEN [s EXCEPT !.done = TRUE]
    ELSE LET end   == WindowEnd(s.start, chunk_size, length)
             chunk == PySlice(text, s.start, end)
         IN IF end = length
            THEN [s EXCEPT !.chunks = Append(@, chunk), !.done = TRUE]
            ELSE [start  |-> NextStart(end, overlap),
                  chunks |-> Append(s.chunks, chunk),
                  done   |-> FALSE]

\* The `if not text:` guard (line 64)
EmptyGuard(text) == text = <<>>

\* the guard returning [text]
EmptyResult_Text == << <<>> >>

\* What the guard returns (line 65)
EmptyResult == <<>>

RECURSIVE RunLoop(_, _, _, _)
RunLoop(s, text, chunk_size, overlap) ==
    IF s.done THEN s.chunks
    ELSE RunLoop(ChunkStep(s, text, chunk_size, overlap), text, chunk_size, overlap)

\* The whole function; the store calls it with chunk_size > overlap >= 0,
\* where the loop ends
simple_overlap_chunk(text, chunk_size, overlap) ==
    IF EmptyGuard(text) THEN EmptyResult
    ELSE RunLoop(LoopInit, Normalize(text), chunk_size, overlap)

----------------------------------------------------------------------------
(* SpecChunk: one call of simple_overlap_chunk, a loop pass per step *)

RECURSIVE SeqsUpTo(_, _)
SeqsUpTo(S, n) ==
    IF n = 0 THEN {<<>>}
    ELSE LET shorter == SeqsUpTo(S, n - 1)
         IN shorter \cup {Append(t, c) : t \in {u \in shorter : Len(u) = n - 1}, c \in S}

ChunkInputs ==
    [text : SeqsUpTo(Alphabet, MaxLen),
     chunk_size : (-1)..MaxChunkSize,
     overlap : (-1)..MaxOverlap]

CkIdle == [pc |-> "idle", text |-> <<>>, chunk_size |-> 0, overlap |-> 0,
           norm |-> <<>>, loop |-> LoopInit]

CkInit ==
    ck \in {[pc |-> "call", text |-> in.text, chunk_size |-> in.chunk_size,
             overlap |-> in.overlap, norm |-> <<>>, loop |-> LoopInit]
            : in \in ChunkInputs}

\* lines 64-65: empty text returns []
ChunkReturnEmpty ==
    /\ ck.pc = "call"
    /\ EmptyGuard(ck.text)
    /\ ck' = [ck EXCEPT !.pc = "done", !.loop.chunks = EmptyResult]
    /\ UNCHANGED <<storeVars, clientVars, ui, tx>>

\* lines 66-74: normalize, start = 0
ChunkNormalize ==
    /\ ck.pc = "call"
    /\ ~EmptyGuard(ck.text)
    /\ ck' = [ck EXCEPT !.pc = "loop", !.norm = Normalize(ck.text)]
    /\ UNCHANGED <<storeVars, clientVars, ui, tx>>

\* lines 75-83: one pass of the while loop
ChunkIterate ==
    /\ ck.pc = "loop"
    /\ ~ck.loop.done
    /\ Len(ck.loop.chunks) < MaxIter
    /\ ck' = [ck EXCEPT !.loop = ChunkStep(ck.loop, ck.norm, ck.chunk_size, ck.overlap)]
    /\ UNCHANGED <<storeVars, clientVars, ui, tx>>

\* line 84: return chunks
ChunkReturn ==
    /\ ck.pc = "loop"
    /\ ck.loop.done
    /\ ck' = [ck EXCEPT !.pc = "done"]
    /\ UNCHANGED <<storeVars, clientVars, ui, tx>>

NextChunk ==
    \/ ChunkReturnEmpty
    \/ ChunkNormalize
    \/ ChunkIterate
    \/ ChunkReturn

----------------------------------------------------------------------------
(* chunk_text (DM/streamlit_/app.py) *)

\* MAX_TOTAL_CHUNKS (line 21)
MAX_TOTAL_CHUNKS == 5
\* TOKEN_ESTIMATE_RATIO (line 22)
TOKEN_ESTIMATE_RATIO == 4

\* str.strip(): leading and trailing whitespace goes
Strip(t) ==
    LET keep == {i \in 1..Len(t) : t[i] \notin WsChars}
    IN IF keep = {} THEN <<>>
       ELSE SubSeq(t, CHOOSE i \in keep : \A j \in keep : i <= j,
                      CHOOSE i \in keep : \A j \in keep : i >= j)

\* str.split(sep) for a one-character sep: the pieces between the
\* separators, empty ones included
SplitOn(t, sep) ==
    LET F[i \in 0..Len(t)] ==
            IF i = 0 THEN << <<>> >>
            ELSE LET before == F[i-1]
                 IN IF t[i] = sep THEN Append(before, <<>>)
                    ELSE [before EXCEPT ![Len(before)] = Append(@, t[i])]
    IN F[Len(t)]

\* sep.join(parts)
JoinWith(parts, sep) ==
    LET F[i \in 0..Len(parts)] ==
            IF i = 0 THEN <<>>
            ELSE IF i = 1 THEN parts[1]
            ELSE F[i-1] \o sep \o parts[i]
    IN F[Len(parts)]

\* [s.strip() for s in text.split('.') if s.strip()] (line 34)
Sentences(text) ==
    LET parts == SplitOn(text, ".")
    IN SelectSeq([i \in 1..Len(parts) |-> Strip(parts[i])], LAMBDA s2 : s2 # <<>>)

\* '. '.join(current_chunk) + '.' (lines 42, 51)
CloseChunk(current_chunk) == JoinWith(current_chunk, <<".", " ">>) \o <<".">>

\* The loop variables of lines 33-36
GreedyInit == [chunks |-> <<>>, current_chunk |-> <<>>, current_length |-> 0]

\* One pass of the loop over the sentences (lines 39-47)
GreedyStep(g, sentence, chunk_size) ==
    LET sentence_length == Len(sentence) IN
    IF g.current_length + sentence_length > chunk_size
    THEN [chunks |-> IF g.current_chunk # <<>>
                     THEN Append(g.chunks, CloseChunk(g.current_chunk))
                     ELSE g.chunks,
          current_chunk |-> <<sentence>>,
          current_length |-> sentence_length]
    ELSE [chunks |-> g.chunks,
          current_chunk |-> Append(g.current_chunk, sentence),
          current_length |-> g.current_length + sentence_length]

\* The chunks before the cap is applied (lines 33-51)
GreedyChunks(sentences, chunk_size) ==
    LET F[i \in 0..Len(sentences)] ==
            IF i = 0 THEN GreedyInit
            ELSE GreedyStep(F[i-1], sentences[i], chunk_size)
        g == F[Len(sentences)]
    IN IF g.current_chunk # <<>>
       THEN Append(g.chunks, CloseChunk(g.current_chunk))
       ELSE g.chunks

\* the threshold test never true: every text is split
BelowThreshold_Never(text) == FALSE

\* len(text) / TOKEN_ESTIMATE_RATIO < threshold (lines 27, 29), a division
\* of floats: the same as len(text) < TOKEN_ESTIMATE_RATIO * threshold
BelowThreshold(text) == Len(text) < TOKEN_ESTIMATE_RATIO * TokenThreshold

\* the group size rounded down
GroupSize_Floor(n) == Max(n \div MAX_TOTAL_CHUNKS, 1)

\* math.ceil(len(chunks) / MAX_TOTAL_CHUNKS) (line 58)
GroupSize(n) == (n + MAX_TOTAL_CHUNKS - 1) \div MAX_TOTAL_CHUNKS

\* [''.join(chunks[i:i + chunk_size]) for i in range(0, len(chunks), chunk_size)]
\* (line 59)
MergeChunks(chs) ==
    LET size  == GroupSize(Len(chs))
        count == (Len(chs) + size - 1) \div size
    IN [j \in 1..count |->
            JoinWith(PySlice(chs, (j - 1) * size, (j - 1) * size + size), <<>>)]

\* The whole function (lines 24-59)
chunk_text(text, chunk_size) ==
    IF BelowThreshold(text) THEN <<text>>
    ELSE LET chs == GreedyChunks(Sentences(text), chunk_size)
         IN IF Len(chs) <= MAX_TOTAL_CHUNKS THEN chs ELSE MergeChunks(chs)

----------------------------------------------------------------------------
(* SpecChunkText: one call of chunk_text *)

\* The pieces a text is made of, put together with '.' between them
SentencePieces == {<<"a">>, <<"a", "a">>, <<" ", "b", " ">>, <<" ">>}

ChunkTextInputs ==
    {JoinWith(ps, <<".">>) : ps \in SeqsUpTo(SentencePieces, MaxSentences)}

CtIdle == [pc |-> "idle", text |-> <<>>, greedy |-> <<>>, result |-> <<>>]

CtInit ==
    ct \in {[pc |-> "call", text |-> t, greedy |-> <<>>, result |-> <<>>]
            : t \in ChunkTextInputs}

\* lines 29-30: a text below the threshold comes back whole
ChunkTextWhole ==
    /\ ct.pc = "call"
    /\ BelowThreshold(ct.text)
    /\ ct' = [ct EXCEPT !.pc = "done", !.result = chunk_text(ct.text, MAX_CHUNK_SIZE)]
    /\ UNCHANGED <<storeVars, ck, ao, em, ui, tx>>

\* lines 33-55: the text is split and the chunks are within the cap
ChunkTextSplit ==
    /\ ct.pc = "call"
    /\ ~BelowThreshold(ct.text)
    /\ LET chs == GreedyChunks(Sentences(ct.text), MAX_CHUNK_SIZE)
       IN /\ Len(chs) <= MAX_TOTAL_CHUNKS
          /\ ct' = [ct EXCEPT !.pc = "done", !.greedy = chs,
                              !.result = chunk_text(ct.text, MAX_CHUNK_SIZE)]
    /\ UNCHANGED <<storeVars, ck, ao, em, ui, tx>>

\* lines 33-59: the text is split and the chunks are merged down to the cap
ChunkTextMerge ==
    /\ ct.pc = "call"
    /\ ~BelowThreshold(ct.text)
    /\ LET chs == GreedyChunks(Sentences(ct.text), MAX_CHUNK_SIZE)
       IN /\ Len(chs) > MAX_TOTAL_CHUNKS
          /\ ct' = [ct EXCEPT !.pc = "done", !.greedy = chs,
                              !.result = chunk_text(ct.text, MAX_CHUNK_SIZE)]
    /\ UNCHANGED <<storeVars, ck, ao, em, ui, tx>>

NextChunkText ==
    \/ ChunkTextWhole
    \/ ChunkTextSplit
    \/ ChunkTextMerge

----------------------------------------------------------------------------
(* ask_ollama (DM/streamlit_/app.py and DM/ollama.py) and the generation   *)
(* service it posts to                                                     *)

\* OLLAMA_MODEL (streamlit_/app.py line 19, ollama.py line 25)
OLLAMA_MODEL == "phi3:latest"
\* timeout=120 (streamlit_/app.py lines 185, 230; ollama.py lines 54, 76)
RequestTimeout == 120

Questions == {<<"q">>}

\* The "response" texts the service may send
ResponseTexts == {<<"x">>, <<" ", "y", " ">>, <<" ">>}

\* What the service may do with a request: answer 200 with a JSON body that
\* has a "response" or has none, answer with an HTTP error status, refuse the
\* connection, or never answer
ServiceReplies ==
    {[kind |-> "ok", has_response |-> TRUE, response |-> r] : r \in ResponseTexts}
    \cup {[kind |-> k, has_response |-> FALSE, response |-> <<>>]
          : k \in {"ok", "http_error", "refused", "silent"}}

\* requests.post(...) followed by raise_for_status(): "ok", the exception
\* raised, or "blocked" when the service never answers a request that has no
\* timeout
PostOutcome(request, reply) ==
    IF reply.kind = "silent"
    THEN IF "timeout" \in DOMAIN request THEN "Timeout" ELSE "blocked"
    ELSE IF reply.kind = "refused" THEN "ConnectionError"
    ELSE IF reply.kind = "http_error" THEN "HTTPError"
    ELSE "ok"

\* response.json().get("response", "")
GetResponse(reply) == IF reply.has_response THEN reply.response ELSE <<>>

\* process_single_request: the request (lines 223-231)
SingleShotRequest(question) ==
    [json |-> [model |-> OLLAMA_MODEL,
               prompt |-> <<"Question: ">> \o question \o <<"\nAnswer:">>,
               stream |-> FALSE],
     timeout |-> RequestTimeout]

\* ask_ollama: the request of one chunk (lines 179-186)
ChunkRequest(chunk, question) ==
    [json |-> [prompt |-> <<"Context:\n">> \o chunk \o <<"\n\nQuestion: ">>
                          \o question \o <<"\nAnswer based on this context:">>,
               stream |-> FALSE],
     timeout |-> RequestTimeout]

\* ask_ollama: the summary prompt (lines 200-204)
SummaryPrompt(responses, question) ==
    <<"Based on the following information:\n\n">>
    \o JoinWith([i \in 1..Len(responses) |-> <<"- ">> \o responses[i]], <<"\n">>)
    \o <<"\n\nProvide a concise answer to the question: ">> \o question

\* ask_ollama: the summarization request (lines 206-212)
SummaryRequest(responses, question) ==
    [json |-> [prompt |-> SummaryPrompt(responses, question), stream |-> FALSE]]

\* ollama.py ask_ollama: the request (lines 47-54)
CliRequest(question, context) ==
    [json |-> [model |-> OLLAMA_MODEL,
               prompt |-> context \o <<"\n\nQuestion: ">> \o question \o <<"\nAnswer:">>,
               stream |-> FALSE],
     timeout |-> RequestTimeout]

\* line 218
CouldNotProcess ==
    <<"Could not process context. Please try a shorter document or rephrase your question.">>

\* One entry of the record of the calls made
CallMade(kind, chunk, request, reply) ==
    [kind |-> kind, chunk |-> chunk, request |-> request, reply |-> reply,
     outcome |-> PostOutcome(request, reply)]

\* every context summarized, responses or none
ShouldSummarize_Always(responses) == TRUE

\* `if responses:` (line 197)
ShouldSummarize(responses) == responses # <<>>

\* the loop left at the first chunk that fails
AfterAttempt_StopOnFailure(i, total_chunks, outcome) ==
    IF outcome = "ok" THEN i + 1 ELSE total_chunks + 1

\* for i, chunk in enumerate(chunks), `continue` in the except branch
\* (lines 176, 192-194): the next chunk, whatever the outcome
AfterAttempt(i, total_chunks, outcome) == i + 1

\* The contexts given to ask_ollama: the empty one, and sentences "aa"
\* with '.' between them
AnswerContexts ==
    {JoinWith(ps, <<".">>) : ps \in SeqsUpTo({<<"a", "a">>}, MaxSentences)}

AoIdle ==
    [pc |-> "idle", fn |-> "", question |-> <<>>, context |-> <<>>, chunks |-> <<>>,
     i |-> 0, responses |-> <<>>, calls |-> <<>>, result |-> <<>>]

AoInit ==
    ao \in {[AoIdle EXCEPT !.pc = "call", !.fn = f, !.question = q, !.context = c]
            : f \in {"streamlit", "cli"}, q \in Questions, c \in AnswerContexts}

\* streamlit ask_ollama, `if not context` (lines 167-168), and
\* process_single_request (lines 220-235)
AskSingleShot ==
    /\ ao.pc = "call" /\ ao.fn = "streamlit"
    /\ ao.context = <<>>
    /\ \E reply \in ServiceReplies :
         LET call == CallMade("single", 0, SingleShotRequest(ao.question), reply)
         IN ao' = [ao EXCEPT
                     !.calls = Append(@, call),
                     !.pc = IF call.outcome = "blocked" THEN "hung" ELSE "done",
                     !.result =
                        IF call.outcome = "ok" /\ reply.has_response
                        THEN Strip(reply.response)
                        ELSE IF call.outcome = "ok"
                        THEN <<"Error querying Ollama: ", "KeyError">>
                        ELSE <<"Error querying Ollama: ", call.outcome>>]
    /\ UNCHANGED <<storeVars, ck, ct, em, ui, tx>>

\* streamlit ask_ollama, lines 170-175: the context is chunked
AskChunkText ==
    /\ ao.pc = "call" /\ ao.fn = "streamlit"
    /\ ao.context # <<>>
    /\ ao' = [ao EXCEPT !.pc = "loop", !.i = 1,
                        !.chunks = chunk_text(ao.context, MAX_CHUNK_SIZE)]
    /\ UNCHANGED <<storeVars, ck, ct, em, ui, tx>>

\* streamlit ask_ollama, lines 176-194: one pass of the loop over the chunks
AskChunk ==
    /\ ao.pc = "loop"
    /\ ao.i <= Len(ao.chunks)
    /\ \E reply \in ServiceReplies :
         LET call == CallMade("chunk", ao.i,
                              ChunkRequest(ao.chunks[ao.i], ao.question), reply)
             chunk_response == Strip(GetResponse(reply))
         IN ao' = [ao EXCEPT
                     !.calls = Append(@, call),
                     !.pc = IF call.outcome = "blocked" THEN "hung" ELSE "loop",
                     !.responses = IF call.outcome = "ok" /\ chunk_response # <<>>
                                   THEN Append(@, chunk_response) ELSE @,
                     !.i = AfterAttempt(@, Len(ao.chunks), call.outcome)]
    /\ UNCHANGED <<storeVars, ck, ct, em, ui, tx>>

\* streamlit ask_ollama, lines 197-216: the responses are summarized
AskSummarize ==
    /\ ao.pc = "loop"
    /\ ao.i > Len(ao.chunks)
    /\ ShouldSummarize(ao.responses)
    /\ \E reply \in ServiceReplies :
         LET call == CallMade("summary", 0,
                              SummaryRequest(ao.responses, ao.question), reply)
         IN ao' = [ao EXCEPT
                     !.calls = Append(@, call),
                     !.pc = IF call.outcome = "blocked" THEN "hung" ELSE "done",
                     !.result =
                        IF call.outcome = "blocked" THEN @
                        ELSE IF call.outcome = "ok" THEN Strip(GetResponse(reply))
                        ELSE <<"Error in final summary: ", call.outcome>>]
    /\ UNCHANGED <<storeVars, ck, ct, em, ui, tx>>

\* streamlit ask_ollama, lines 217-218: no chunk gave a response
AskAllFailed ==
    /\ ao.pc = "loop"
    /\ ao.i > Len(ao.chunks)
    /\ ~ShouldSummarize(ao.responses)
    /\ ao' = [ao EXCEPT !.pc = "done", !.result = CouldNotProcess]
    /\ UNCHANGED <<storeVars, ck, ct, em, ui, tx>>

\* ollama.py ask_ollama (lines 46-63)
AskCli ==
    /\ ao.pc = "call" /\ ao.fn = "cli"
    /\ \E reply \in ServiceReplies :
         LET call == CallMade("cli", 0, CliRequest(ao.question, ao.context), reply)
         IN ao' = [ao EXCEPT
                     !.calls = Append(@, call),
                     !.pc = IF call.outcome = "blocked" THEN "hung" ELSE "done",
                     !.result =
                        IF call.outcome = "ok" THEN Strip(GetResponse(reply))
                        ELSE IF call.outcome = "Timeout"
                        THEN <<"Error: Request timed out after 120 seconds. The model may be processing a complex request.">>
                        ELSE IF call.outcome = "ConnectionError"
                        THEN <<"Error: Cannot connect to Ollama. Please ensure Ollama is running on localhost:11434.">>
                        ELSE <<"Error querying Ollama: ", call.outcome>>]
    /\ UNCHANGED <<storeVars, ck, ct, em, ui, tx>>

NextAnswer ==
    \/ AskSingleShot
    \/ AskChunkText
    \/ AskChunk
    \/ AskSummarize
    \/ AskAllFailed
    \/ AskCli

----------------------------------------------------------------------------
(* embed_texts (DM/ollama.py) and the embedding service it posts to *)

\* OLLAMA_EMBED_MODEL (line 26)
OLLAMA_EMBED_MODEL == "nomic-embed-text"

EmbedTexts == {"t1", "t2"}

\* None, and a value that is not None
None == [is_none |-> TRUE, val |-> <<>>]
Some(v) == [is_none |-> FALSE, val |-> v]

\* {} as a JSON object
EmptyObject == <<>>

\* dict.get(key)
DictGet(obj, key) == IF key \in DOMAIN obj THEN Some(obj[key]) ELSE None

\* Python's truth of a value that is None or a list
Truthy(x) == ~x.is_none /\ x.val # <<>>

\* The JSON bodies the service may answer 200 with: an embedding under one
\* of the three names, no such field, an empty array, an empty "data" list
EmbedBodies ==
    {[embedding |-> v] : v \in {<<1, 0>>, <<0, 1>>, <<>>}}
    \cup {[embeddings |-> <<1, 0>>],
          [data |-> << [embedding |-> <<0, 1>>] >>],
          [data |-> << [embedding |-> <<>>] >>],
          [data |-> <<>>],
          EmptyObject}

\* What the service may do with a request
EmbedReplies ==
    {[kind |-> "ok", data |-> b] : b \in EmbedBodies}
    \cup {[kind |-> k, data |-> EmptyObject] : k \in {"http_error", "refused", "silent"}}

\* data.get("embedding") or data.get("embeddings") or
\* data.get("data", [{}])[0].get("embedding") (line 79); [0] of an empty
\* list raises IndexError
ExtractEmbedding(data) ==
    LET a == DictGet(data, "embedding")
        b == DictGet(data, "embeddings")
        l == IF "data" \in DOMAIN data THEN data.data ELSE << EmptyObject >>
    IN IF Truthy(a) THEN [raised |-> FALSE, emb |-> a]
       ELSE IF Truthy(b) THEN [raised |-> FALSE, emb |-> b]
       ELSE IF l = <<>> THEN [raised |-> TRUE, emb |-> None]
       ELSE [raised |-> FALSE, emb |-> DictGet(l[1], "embedding")]

\* The request of one text (line 76)
EmbedRequest(t) ==
    [json |-> [model |-> OLLAMA_EMBED_MODEL, prompt |-> t], timeout |-> RequestTimeout]

\* the vectors so far returned when a call fails
OnEmbedFailure_Prefix(embeddings) == embeddings

\* `return []` of every except branch (lines 84-92)
OnEmbedFailure(embeddings) == <<>>

EmIdle == [pc |-> "idle", texts |-> <<>>, i |-> 0, embeddings |-> <<>>,
           calls |-> <<>>, result |-> <<>>]

EmInit ==
    em \in {[EmIdle EXCEPT !.pc = "call", !.texts = ts, !.i = 1]
            : ts \in SeqsUpTo(EmbedTexts, MaxTexts)}

\* lines 70-71: no texts, no call
EmbedNothing ==
    /\ em.pc = "call"
    /\ em.texts = <<>>
    /\ em' = [em EXCEPT !.pc = "done", !.result = <<>>]
    /\ UNCHANGED <<storeVars, ck, ct, ao, ui, tx>>

\* lines 75-82 and 84-92: one pass of the loop over the texts; whatever is
\* raised ends the call
EmbedOne ==
    /\ em.pc = "call"
    /\ em.i <= Len(em.texts)
    /\ \E reply \in EmbedReplies :
         LET request == EmbedRequest(em.texts[em.i])
             outcome == PostOutcome(request, reply)
             got     == ExtractEmbedding(reply.data)
             raises  == outcome # "ok" \/ got.raised \/ got.emb.is_none
             call    == [request |-> request, reply |-> reply, outcome |-> outcome]
         IN IF outcome = "blocked"
            THEN em' = [em EXCEPT !.pc = "hung", !.calls = Append(@, call)]
            ELSE IF raises
            THEN em' = [em EXCEPT !.pc = "done", !.calls = Append(@, call),
                                  !.result = OnEmbedFailure(em.embeddings)]
            ELSE em' = [em EXCEPT !.i = @ + 1, !.calls = Append(@, call),
                                  !.embeddings = Append(@, got.emb.val)]
    /\ UNCHANGED <<storeVars, ck, ct, ao, ui, tx>>

\* line 83: return embeddings
EmbedReturn ==
    /\ em.pc = "call"
    /\ em.texts # <<>>
    /\ em.i > Len(em.texts)
    /\ em' = [em EXCEPT !.pc = "done", !.result = em.embeddings]
    /\ UNCHANGED <<storeVars, ck, ct, ao, ui, tx>>

NextEmbed ==
    \/ EmbedNothing
    \/ EmbedOne
    \/ EmbedReturn

----------------------------------------------------------------------------
(* The store: tables, files, embeddings *)

Paths == {"/d/a.pdf", "/d/b.pdf"}

\* os.path.basename(pdf_path) (line 148)
Basename(p) == IF p = "/d/a.pdf" THEN "a.pdf" ELSE "b.pdf"

\* a title given to upsert_document is the basename or another string
OtherTitle == "other"

\* The texts the PDF on disk may hold when ingest_pdf reads it (the file is
\* an input of the call): no text, one window, several windows
FileContents ==
    { <<>>,
      <<"a", "NUL", "b">>,
      <<"b", "TAB", "a">> }

\* compute_file_hash: a digest of the file's bytes, distinct for distinct bytes
compute_file_hash(content) == <<"sha256", content>>

Hashes == {compute_file_hash(c) : c \in FileContents}

\* "".join((page.extract_text() or "").replace('\x00', '') ...) (line 159)
ExtractText(content) == SelectSeq(content, LAMBDA c : c # "NUL")

\* chunk_size and overlap given to ingest_pdf.  Its callers leave them at the
\* defaults (800 and 120, chunk_size > overlap); the window here is scaled to
\* the texts of FileContents
IngestParams == { [chunk_size |-> 2, overlap |-> 1] }

\* Embedding vectors, all of norm 5
QueryVectors == { <<5, 0>>, <<4, 3>>, <<0, 5>> }

\* The embedding model: the vector it gives a text (a fixed function of the
\* text; which vector a text gets is the model's business)
Embed(t) ==
    IF t = <<>> THEN <<0, 5>>
    ELSE IF t[1] = "a" THEN <<5, 0>>
    ELSE IF t[Len(t)] = "a" THEN <<3, 4>> ELSE <<4, 3>>

Dot(a, b) == a[1] * b[1] + a[2] * b[2]
Norm(a) == CHOOSE n \in 0..(Dot(a, a)) : n * n = Dot(a, a)

\* pgvector's cosine distance 1 - a.b / (|a| |b|), in units of 1/25
cosine_distance(a, b) ==
    (25 * Norm(a) * Norm(b) - 25 * Dot(a, b)) \div (Norm(a) * Norm(b))

\* What a call of the embedder on `texts` may do: raise, or return a list of
\* vectors that may be shorter than `texts` (ollama.embed_texts returns [] on
\* any error)
EmbedderOutcomes(texts) ==
    {[raises |-> TRUE, vectors |-> <<>>]}
    \cup {[raises |-> FALSE, vectors |-> [i \in 1..n |-> Embed(texts[i])]]
          : n \in 0..Len(texts)}

\* The rows of one document's chunks
ChunksOf(chunkRows, document_id) == {c \in chunkRows : c.document_id = document_id}

\* session.query(Document).filter_by(file_path=file_path) (line 98)
get_document_by_path(docRows, file_path) == {d \in docRows : d.file_path = file_path}

\* upsert_document that keeps the old chunks when the hash differs
upsert_document_KeepChunks(S, title, file_path, content_hash) ==
    LET found == get_document_by_path(S.docs, file_path) IN
    IF found = {}
    THEN LET doc == [id |-> S.nextDocId, title |-> title,
                     file_path |-> file_path, content_hash |-> content_hash]
         IN [docs |-> S.docs \cup {doc}, chunks |-> S.chunks,
             nextDocId |-> S.nextDocId + 1, doc |-> doc, changed |-> TRUE]
    ELSE LET doc == CHOOSE d \in found : TRUE IN
         IF doc.content_hash # content_hash
         THEN LET doc2 == [doc EXCEPT !.content_hash = content_hash]
              IN [docs |-> (S.docs \ {doc}) \cup {doc2}, chunks |-> S.chunks,
                  nextDocId |-> S.nextDocId, doc |-> doc2, changed |-> TRUE]
         ELSE [docs |-> S.docs, chunks |-> S.chunks,
               nextDocId |-> S.nextDocId, doc |-> doc, changed |-> FALSE]

\* upsert_document that deletes the old chunks but leaves the stored hash
upsert_document_KeepHash(S, title, file_path, content_hash) ==
    LET found == get_document_by_path(S.docs, file_path) IN
    IF found = {}
    THEN LET doc == [id |-> S.nextDocId, title |-> title,
                     file_path |-> file_path, content_hash |-> content_hash]
         IN [docs |-> S.docs \cup {doc}, chunks |-> S.chunks,
             nextDocId |-> S.nextDocId + 1, doc |-> doc, changed |-> TRUE]
    ELSE LET doc == CHOOSE d \in found : TRUE IN
         IF doc.content_hash # content_hash
         THEN [docs |-> S.docs, chunks |-> S.chunks \ ChunksOf(S.chunks, doc.id),
               nextDocId |-> S.nextDocId, doc |-> doc, changed |-> TRUE]
         ELSE [docs |-> S.docs, chunks |-> S.chunks,
               nextDocId |-> S.nextDocId, doc |-> doc, changed |-> FALSE]

\* upsert_document that also stores the given title when the hash matches
upsert_document_Retitle(S, title, file_path, content_hash) ==
    LET found == get_document_by_path(S.docs, file_path) IN
    IF found = {}
    THEN LET doc == [id |-> S.nextDocId, title |-> title,
                     file_path |-> file_path, content_hash |-> content_hash]
         IN [docs |-> S.docs \cup {doc}, chunks |-> S.chunks,
             nextDocId |-> S.nextDocId + 1, doc |-> doc, changed |-> TRUE]
    ELSE LET doc == CHOOSE d \in found : TRUE IN
         IF doc.content_hash # content_hash
         THEN LET doc2 == [doc EXCEPT !.content_hash = content_hash]
              IN [docs |-> (S.docs \ {doc}) \cup {doc2},
                  chunks |-> S.chunks \ ChunksOf(S.chunks, doc.id),
                  nextDocId |-> S.nextDocId, doc |-> doc2, changed |-> TRUE]
         ELSE LET doc2 == [doc EXCEPT !.title = title]
              IN [docs |-> (S.docs \ {doc}) \cup {doc2}, chunks |-> S.chunks,
                  nextDocId |-> S.nextDocId, doc |-> doc2, changed |-> FALSE]

\* upsert_document that inserts without looking the path up
upsert_document_AlwaysInsert(S, title, file_path, content_hash) ==
    LET doc == [id |-> S.nextDocId, title |-> title,
                file_path |-> file_path, content_hash |-> content_hash]
    IN [docs |-> S.docs \cup {doc}, chunks |-> S.chunks,
        nextDocId |-> S.nextDocId + 1, doc |-> doc, changed |-> TRUE]

\* upsert_document on a session whose view of the tables is S (lines 100-115).
\* Returns the session's view after the flush, the document and `changed`.
upsert_document(S, title, file_path, content_hash) ==
    LET found == get_document_by_path(S.docs, file_path) IN
    IF found = {}
    THEN LET doc == [id |-> S.nextDocId, title |-> title,
                     file_path |-> file_path, content_hash |-> content_hash]
         IN [docs |-> S.docs \cup {doc}, chunks |-> S.chunks,
             nextDocId |-> S.nextDocId + 1, doc |-> doc, changed |-> TRUE]
    ELSE LET doc == CHOOSE d \in found : TRUE IN
         IF doc.content_hash # content_hash
         THEN LET doc2 == [doc EXCEPT !.content_hash = content_hash]
              IN [docs |-> (S.docs \ {doc}) \cup {doc2},
                  chunks |-> S.chunks \ ChunksOf(S.chunks, doc.id),
                  nextDocId |-> S.nextDocId, doc |-> doc2, changed |-> TRUE]
         ELSE [docs |-> S.docs, chunks |-> S.chunks,
               nextDocId |-> S.nextDocId, doc |-> doc, changed |-> FALSE]

\* The rows ingest_text_chunks adds for zip(chunks, embeddings) (lines 124-137);
\* the ids are given at the commit's flush, in the order of the adds
ingest_text_chunks(document_id, texts, embeddings, first_id) ==
    {[id |-> first_id + i - 1, document_id |-> document_id, chunk_index |-> i - 1,
      text |-> texts[i], token_count |-> Len(texts[i]), embedding |-> embeddings[i]]
     : i \in 1..Min(Len(texts), Len(embeddings))}

\* the short-circuit never taken
ShortCircuit_Never(changed, docChunks) == FALSE

\* the short-circuit taken for every unchanged document, chunks or none
ShortCircuit_Unchanged(changed, docChunks) == ~changed

\* `if not changed and doc.chunks` (line 153)
ShortCircuit(changed, docChunks) == ~changed /\ docChunks # {}

----------------------------------------------------------------------------
(* search *)

\* session.query(Chunk, Document).join(...) (line 173)
Joined(chunkRows, docRows) ==
    {r \in [chunk : chunkRows, doc : docRows] : r.chunk.document_id = r.doc.id}

\* the filter dropped: every search is global
FilterApplies_Never(paths_given, paths) == FALSE

\* `if document_paths:` (line 174): None and the empty sequence are both false
FilterApplies(paths_given, paths) == paths_given /\ paths # {}

\* The rows the query ranges over (lines 173-175)
Candidates(chunkRows, docRows, paths_given, paths) ==
    IF FilterApplies(paths_given, paths)
    THEN {r \in Joined(chunkRows, docRows) : r.doc.file_path \in paths}
    ELSE Joined(chunkRows, docRows)

\* order_by dropped: any row may come next
Nearest_Unordered(rows, q) == rows

\* order_by(distance_expr) (lines 176-177): the rows that may come next, those
\* of the least distance (the database breaks ties as it likes)
Nearest(rows, q) ==
    {r \in rows : \A o \in rows :
        cosine_distance(r.chunk.embedding, q) <= cosine_distance(o.chunk.embedding, q)}

\* q.order_by(distance_expr).limit(k).all() (lines 177-178): every list the
\* database may return
RECURSIVE OrderByLimit(_, _, _)
OrderByLimit(rows, q, k) ==
    IF k <= 0 \/ rows = {} THEN {<<>>}
    ELSE UNION {{<<r>> \o rest : rest \in OrderByLimit(rows \ {r}, q, k - 1)}
                : r \in Nearest(rows, q)}

\* One SearchResult, its distance asked of the database again (lines 181-192)
SearchResult(r, chunkRows, q) ==
    [text |-> r.chunk.text,
     document_title |-> r.doc.title,
     file_path |-> r.doc.file_path,
     distance |-> LET again == {c \in chunkRows : c.id = r.chunk.id}
                  IN IF again = {} THEN 0
                     ELSE cosine_distance((CHOOSE c \in again : TRUE).embedding, q)]

----------------------------------------------------------------------------
(* The record of the last call *)

NoCall ==
    [op |-> "none", path |-> "", title |-> "", content |-> <<>>, content_hash |-> <<>>,
     chunk_size |-> 0, overlap |-> 0,
     pre_exists |-> FALSE, pre_same_hash |-> FALSE, pre_count |-> 0,
     doc_id |-> 0, session_count |-> 0,
     embedder_called |-> FALSE, embedder_raised |-> FALSE, n_texts |-> 0, n_vectors |-> 0,
     raised |-> FALSE, added |-> 0, changed |-> FALSE,
     q |-> <<>>, paths_given |-> FALSE, paths |-> {}, k |-> 0,
     rows |-> <<>>, results |-> <<>>]

\* What the tables hold for path p before a call
PreExists(p) == get_document_by_path(docs, p) # {}
PreSameHash(p, h) == \E d \in get_document_by_path(docs, p) : d.content_hash = h
PreChunks(p) == UNION {ChunksOf(chunks, d.id) : d \in get_document_by_path(docs, p)}
PreCount(p) == Cardinality(PreChunks(p))

----------------------------------------------------------------------------
(* Spec: the calls *)

----------------------------------------------------------------------------
(* The "Ask Ollama" button handler (DM/streamlit_/app.py lines 279-318) *)

\* The "None" entry of the selectbox (line 250)
NoPdf == "None"

\* k=6 (line 299)
HandlerK == 6

\* The questions typed: a blank one and one with text (line 275)
HandlerQuestions == {<<" ">>, <<"q">>}

\* What embed_texts([question]) may return: [] on any failure, or the one
\* vector (ollama.py lines 66-92)
QuestionEmbeddings == {<<>>} \cup {<<v>> : v \in QueryVectors}

\* The tuple ingest_pdf returns (rag_store.py lines 155, 163)
IngestReturn(l) == <<l.added, l.changed>>

\* `a, b, c = value` (line 295): unpacking into n names raises ValueError
\* unless value has n items
UnpackRaises(value, n) == Len(value) # n

\* get_pdf_text (lines 80-86): the text of the pages, nothing removed
get_pdf_text(content) == content

\* "\n\n".join(f"[From {r.document_title}]\n{r.text}" for r in results)
\* (line 301)
BuildContext(results) ==
    JoinWith([i \in 1..Len(results) |->
                 <<"[From ", results[i].document_title, "]\n">> \o results[i].text],
             <<"\n\n">>)

UiIdle ==
    [pc |-> "idle", clicks |-> 0, question |-> <<>>, use_rag |-> FALSE,
     rag_available |-> FALSE, selected_pdf |-> NoPdf, content |-> <<>>,
     selected_paths |-> {}, q_emb |-> <<>>, ingest |-> "", failed |-> "",
     steps |-> <<>>, context |-> <<>>, asked |-> FALSE]

----------------------------------------------------------------------------
(* Concurrent ingest_pdf calls: each call has a session of its own        *)
(* (rag_store.py line 151), a transaction of the database                 *)

Sessions == {1, 2}

\* The path the concurrent calls ingest
ConcPath == "/d/a.pdf"

\* A session that is not open
NoSession ==
    [pc |-> "idle", content |-> <<>>, content_hash |-> <<>>, found |-> {},
     doc_id |-> 0, is_new |-> FALSE, changed |-> FALSE, locked |-> FALSE,
     to_delete |-> {}, pending |-> <<>>, inserted |-> {},
     added |-> 0, raised |-> FALSE, committed |-> FALSE]

TxIdle == [s \in Sessions |-> NoSession]

Init ==
    /\ docs = {}
    /\ chunks = {}
    /\ nextDocId = 1
    /\ nextChunkId = 1
    /\ last = NoCall
    /\ ck = CkIdle
    /\ ct = CtIdle
    /\ ao = AoIdle
    /\ em = EmIdle
    /\ ui = UiIdle
    /\ tx = TxIdle

\* upsert_document in a session of its own that is then committed
UpsertDocument ==
    \E p \in Paths, h \in Hashes : \E title \in {Basename(p), OtherTitle} :
        LET S == [docs |-> docs, chunks |-> chunks, nextDocId |-> nextDocId]
            U == upsert_document(S, title, p, h)
        IN /\ docs' = U.docs
           /\ chunks' = U.chunks
           /\ nextDocId' = U.nextDocId
           /\ last' = [NoCall EXCEPT
                         !.op = "upsert_document", !.path = p, !.title = title,
                         !.content_hash = h,
                         !.pre_exists = PreExists(p),
                         !.pre_same_hash = PreSameHash(p, h),
                         !.pre_count = PreCount(p),
                         !.doc_id = U.doc.id,
                         !.session_count = Cardinality(ChunksOf(U.chunks, U.doc.id)),
                         !.changed = U.changed]
           /\ UNCHANGED <<nextChunkId, ck, clientVars, ui, tx>>

\* ingest_pdf (lines 139-163)
IngestPdfOf(p, content) ==
    \E par \in IngestParams :
        LET title == Basename(p)
            content_hash == compute_file_hash(content)
            S == [docs |-> docs, chunks |-> chunks, nextDocId |-> nextDocId]
            U == upsert_document(S, title, p, content_hash)
            docChunks == ChunksOf(U.chunks, U.doc.id)
            call == [NoCall EXCEPT
                       !.op = "ingest_pdf", !.path = p, !.title = title,
                       !.content = content, !.content_hash = content_hash,
                       !.chunk_size = par.chunk_size, !.overlap = par.overlap,
                       !.pre_exists = PreExists(p),
                       !.pre_same_hash = PreSameHash(p, content_hash),
                       !.pre_count = PreCount(p),
                       !.doc_id = U.doc.id,
                       !.session_count = Cardinality(docChunks)]
        IN /\ UNCHANGED <<ck, clientVars, tx>>
           /\ IF ShortCircuit(U.changed, docChunks)
              THEN \* lines 154-155: commit, return len(doc.chunks), False
                   /\ docs' = U.docs
                   /\ chunks' = U.chunks
                   /\ nextDocId' = U.nextDocId
                   /\ UNCHANGED nextChunkId
                   /\ last' = [call EXCEPT !.added = Cardinality(docChunks),
                                           !.changed = FALSE]
              ELSE \* lines 158-163
                   LET full_text == ExtractText(content)
                       texts == simple_overlap_chunk(full_text, par.chunk_size, par.overlap)
                   IN \E out \in EmbedderOutcomes(texts) :
                        IF out.raises
                        THEN \* the session is closed without a commit: nothing
                             \* of the transaction stays
                             /\ UNCHANGED <<docs, chunks, nextDocId, nextChunkId>>
                             /\ last' = [call EXCEPT !.embedder_called = TRUE,
                                                     !.embedder_raised = TRUE,
                                                     !.n_texts = Len(texts),
                                                     !.raised = TRUE]
                        ELSE LET rows == ingest_text_chunks(U.doc.id, texts, out.vectors,
                                                            nextChunkId)
                             IN /\ nextChunkId + Cardinality(rows) <= MaxChunkId + 1
                                /\ docs' = U.docs
                                /\ chunks' = U.chunks \cup rows
                                /\ nextDocId' = U.nextDocId
                                /\ nextChunkId' = nextChunkId + Cardinality(rows)
                                /\ last' = [call EXCEPT !.embedder_called = TRUE,
                                                        !.n_texts = Len(texts),
                                                        !.n_vectors = Len(out.vectors),
                                                        !.added = Cardinality(rows),
                                                        !.changed = TRUE]

\* ingest_pdf called on its own, with the file as it is at the call
IngestPdf ==
    /\ \E p \in Paths, content \in FileContents : IngestPdfOf(p, content)
    /\ UNCHANGED ui

\* search (lines 165-193) with the arguments given
SearchOf(q, paths_given, paths, k) ==
    /\ \E rows \in OrderByLimit(Candidates(chunks, docs, paths_given, paths), q, k) :
         last' = [NoCall EXCEPT
                    !.op = "search", !.q = q, !.paths_given = paths_given,
                    !.paths = paths, !.k = k,
                    !.rows = [i \in 1..Len(rows) |-> rows[i].chunk.id],
                    !.results = [i \in 1..Len(rows) |-> SearchResult(rows[i], chunks, q)]]
    /\ UNCHANGED <<docs, chunks, nextDocId, nextChunkId, ck, clientVars, tx>>

\* search called on its own
Search ==
    /\ \E q \in QueryVectors, paths_given \in BOOLEAN, paths \in SUBSET Paths, k \in 0..MaxK :
         /\ paths_given \/ paths = {}
         /\ SearchOf(q, paths_given, paths, k)
    /\ UNCHANGED ui

\* lines 279-284 and 306: the button is pressed; a blank question gets a
\* warning, otherwise context = "" and the path is chosen
HandlerClick ==
    /\ ui.pc \in {"idle", "done"}
    /\ ui.clicks < MaxClicks
    /\ \E question \in HandlerQuestions, use_rag \in BOOLEAN, available \in BOOLEAN,
          pdf \in {NoPdf} \cup Paths, content \in FileContents :
         ui' = [UiIdle EXCEPT
                  !.clicks = ui.clicks + 1, !.question = question,
                  !.use_rag = use_rag, !.rag_available = available,
                  !.selected_pdf = pdf, !.content = content,
                  !.pc = IF Strip(question) = <<>> THEN "done"
                         ELSE IF use_rag /\ available THEN "rag" ELSE "direct"]
    /\ UNCHANGED <<storeVars, ck, clientVars, tx>>

\* lines 290-296: a PDF is selected; it is ingested and the value returned
\* is unpacked into added, changed, skipped
HandlerIngest ==
    /\ ui.pc = "rag"
    /\ ui.selected_pdf # NoPdf
    /\ IngestPdfOf(ui.selected_pdf, ui.content)
    /\ ui' = IF last'.raised
             THEN [ui EXCEPT !.pc = "fallback", !.ingest = "raised",
                             !.failed = "ingest_pdf",
                             !.selected_paths = {ui.selected_pdf},
                             !.steps = Append(@, "ingest_pdf")]
             ELSE IF UnpackRaises(IngestReturn(last'), 3)
             THEN [ui EXCEPT !.pc = "fallback", !.ingest = "returned",
                             !.failed = "unpack",
                             !.selected_paths = {ui.selected_pdf},
                             !.steps = Append(@, "ingest_pdf")]
             ELSE [ui EXCEPT !.pc = "embed", !.ingest = "returned",
                             !.selected_paths = {ui.selected_pdf},
                             !.steps = Append(@, "ingest_pdf")]

\* lines 290-291: no PDF is selected, selected_paths stays []
HandlerNoIngest ==
    /\ ui.pc = "rag"
    /\ ui.selected_pdf = NoPdf
    /\ ui' = [ui EXCEPT !.pc = "embed"]
    /\ UNCHANGED <<storeVars, ck, clientVars, tx>>

\* line 298: q_emb = embed_texts([question])[0]; [0] of [] raises IndexError
HandlerEmbed ==
    /\ ui.pc = "embed"
    /\ \E e \in QuestionEmbeddings :
         ui' = IF e = <<>>
               THEN [ui EXCEPT !.pc = "fallback", !.failed = "embed_texts",
                               !.steps = Append(@, "embed_texts")]
               ELSE [ui EXCEPT !.pc = "search", !.q_emb = e[1],
                               !.steps = Append(@, "embed_texts")]
    /\ UNCHANGED <<storeVars, ck, clientVars, tx>>

\* lines 299-302: the search and the context built from its results
HandlerSearch ==
    /\ ui.pc = "search"
    /\ SearchOf(ui.q_emb, TRUE, ui.selected_paths, HandlerK)
    /\ ui' = [ui EXCEPT !.pc = "ask", !.context = BuildContext(last'.results),
                        !.steps = @ \o <<"search", "context">>]

\* line 299 raising: the database does not answer
HandlerSearchFails ==
    /\ ui.pc = "search"
    /\ ui' = [ui EXCEPT !.pc = "fallback", !.failed = "search",
                        !.steps = Append(@, "search")]
    /\ UNCHANGED <<storeVars, ck, clientVars, tx>>

\* lines 303-305: whatever was raised in the try block, the context is the
\* text of the selected PDF
HandlerFallback ==
    /\ ui.pc = "fallback"
    /\ ui' = [ui EXCEPT !.pc = "ask",
                        !.context = IF ui.selected_pdf # NoPdf
                                    THEN get_pdf_text(ui.content) ELSE <<>>,
                        !.steps = Append(@, "get_pdf_text")]
    /\ UNCHANGED <<storeVars, ck, clientVars, tx>>

\* lines 306-311: the direct path
HandlerDirect ==
    /\ ui.pc = "direct"
    /\ ui' = [ui EXCEPT !.pc = "ask",
                        !.context = IF ui.selected_pdf # NoPdf
                                    THEN get_pdf_text(ui.content) ELSE <<>>]
    /\ UNCHANGED <<storeVars, ck, clientVars, tx>>

\* lines 314-318: answer = ask_ollama(question, context)
HandlerAsk ==
    /\ ui.pc = "ask"
    /\ ui' = [ui EXCEPT !.pc = "done", !.asked = TRUE,
                        !.steps = Append(@, "ask_ollama")]
    /\ UNCHANGED <<storeVars, ck, clientVars, tx>>

\* lines 148-149: a call starts, the file is read and hashed
TxBegin(s) ==
    /\ tx[s].pc = "idle"
    /\ \E content \in FileContents :
         tx' = [tx EXCEPT ![s] = [NoSession EXCEPT
                   !.pc = "read", !.content = content,
                   !.content_hash = compute_file_hash(content)]]
    /\ UNCHANGED <<storeVars, ck, clientVars, ui>>

\* lines 101-102, 108: the session reads the committed document of the path
TxRead(s) ==
    /\ tx[s].pc = "read"
    /\ LET found == get_document_by_path(docs, ConcPath)
       IN tx' = [tx EXCEPT ![s] = [@ EXCEPT
                   !.found = found,
                   !.doc_id = IF found = {} THEN 0 ELSE (CHOOSE d \in found : TRUE).id,
                   !.pc = IF found = {} THEN "insert"
                          ELSE IF (CHOOSE d \in found : TRUE).content_hash # tx[s].content_hash
                          THEN "load" ELSE "check"]]
    /\ UNCHANGED <<storeVars, ck, clientVars, ui>>

\* the unique constraint of documents.file_path not declared
PathTaken_NoConstraint(docRows, file_path) == FALSE

\* file_path = Column(..., unique=True) (line 25): the INSERT of a path
\* that a committed row has is refused
PathTaken(docRows, file_path) == get_document_by_path(docRows, file_path) # {}

\* lines 103-106: INSERT of the new document at flush.  It waits while
\* another open transaction has inserted the path, and raises
\* IntegrityError when a committed row has it
TxInsert(s) ==
    /\ tx[s].pc = "insert"
    /\ \A o \in Sessions \ {s} : ~(tx[o].is_new /\ tx[o].pc # "done")
    /\ IF PathTaken(docs, ConcPath)
       THEN /\ tx' = [tx EXCEPT ![s] = [@ EXCEPT !.pc = "done", !.raised = TRUE]]
            /\ UNCHANGED nextDocId
       ELSE /\ tx' = [tx EXCEPT ![s] = [@ EXCEPT
                        !.pc = "extract", !.is_new = TRUE, !.changed = TRUE,
                        !.doc_id = nextDocId]]
            /\ nextDocId' = nextDocId + 1
    /\ UNCHANGED <<docs, chunks, nextChunkId, last, ck, clientVars, ui>>

\* lines 109-112: the hash has changed; doc.chunks is loaded and every chunk
\* of it is marked deleted
TxLoad(s) ==
    /\ tx[s].pc = "load"
    /\ tx' = [tx EXCEPT ![s] = [@ EXCEPT
                !.pc = "update", !.changed = TRUE,
                !.to_delete = {c.id : c \in ChunksOf(chunks, tx[s].doc_id)}]]
    /\ UNCHANGED <<storeVars, ck, clientVars, ui>>

\* line 113: flush, the UPDATE of the document row and the DELETEs.  The
\* UPDATE waits while another open transaction has updated the row
TxUpdate(s) ==
    /\ tx[s].pc = "update"
    /\ \A o \in Sessions \ {s} : ~tx[o].locked
    /\ tx' = [tx EXCEPT ![s] = [@ EXCEPT !.pc = "extract", !.locked = TRUE]]
    /\ UNCHANGED <<storeVars, ck, clientVars, ui>>

\* lines 153-155: the hash is the stored one; doc.chunks is loaded, and if
\* there are chunks the call commits and returns their number
TxCheck(s) ==
    /\ tx[s].pc = "check"
    /\ LET docChunks == ChunksOf(chunks, tx[s].doc_id)
       IN tx' = [tx EXCEPT ![s] =
                   IF ShortCircuit(tx[s].changed, docChunks)
                   THEN [@ EXCEPT !.pc = "done", !.committed = TRUE,
                                  !.added = Cardinality(docChunks)]
                   ELSE [@ EXCEPT !.pc = "extract"]]
    /\ UNCHANGED <<storeVars, ck, clientVars, ui>>

\* lines 158-161: the text is extracted and chunked, the embedder called and
\* the chunks added to the session; an embedder that raises ends the call,
\* the session is closed and its transaction rolled back
TxEmbed(s) ==
    /\ tx[s].pc = "extract"
    /\ \E par \in IngestParams :
         LET texts == simple_overlap_chunk(ExtractText(tx[s].content),
                                           par.chunk_size, par.overlap)
         IN \E out \in EmbedderOutcomes(texts) :
              tx' = [tx EXCEPT ![s] =
                       IF out.raises
                       THEN [@ EXCEPT !.pc = "done", !.raised = TRUE,
                                      !.locked = FALSE, !.is_new = FALSE]
                       ELSE [@ EXCEPT !.pc = "commit",
                                      !.pending = [i \in 1..Min(Len(texts), Len(out.vectors))
                                                     |-> [text |-> texts[i],
                                                          embedding |-> out.vectors[i]]]]]
    /\ UNCHANGED <<storeVars, ck, clientVars, ui>>

\* line 162: commit.  The chunks are inserted, and the session's document
\* row, hash and deletions become the committed ones
TxCommit(s) ==
    /\ tx[s].pc = "commit"
    /\ LET t    == tx[s]
           rows == ingest_text_chunks(t.doc_id,
                                      [i \in 1..Len(t.pending) |-> t.pending[i].text],
                                      [i \in 1..Len(t.pending) |-> t.pending[i].embedding],
                                      nextChunkId)
       IN /\ docs' = IF t.is_new
                     THEN docs \cup {[id |-> t.doc_id, title |-> Basename(ConcPath),
                                      file_path |-> ConcPath,
                                      content_hash |-> t.content_hash]}
                     ELSE IF t.locked
                     THEN {IF d.id = t.doc_id
                           THEN [d EXCEPT !.content_hash = t.content_hash] ELSE d
                           : d \in docs}
                     ELSE docs
          /\ chunks' = {c \in chunks : c.id \notin t.to_delete} \cup rows
          /\ nextChunkId' = nextChunkId + Cardinality(rows)
          /\ tx' = [tx EXCEPT ![s] = [@ EXCEPT
                      !.pc = "done", !.committed = TRUE, !.locked = FALSE,
                      !.inserted = {c.id : c \in rows},
                      !.added = Cardinality(rows)]]
    /\ UNCHANGED <<nextDocId, last, ck, clientVars, ui>>

\* An ingest_pdf of the path that is over before the concurrent ones start
ConcSetup ==
    /\ docs = {}
    /\ \A s \in Sessions : tx[s].pc = "idle"
    /\ \E content \in FileContents : IngestPdfOf(ConcPath, content)
    /\ UNCHANGED ui

NextConcurrent ==
    \/ ConcSetup
    \/ \E s \in Sessions : TxBegin(s)
    \/ \E s \in Sessions : TxRead(s)
    \/ \E s \in Sessions : TxInsert(s)
    \/ \E s \in Sessions : TxLoad(s)
    \/ \E s \in Sessions : TxUpdate(s)
    \/ \E s \in Sessions : TxCheck(s)
    \/ \E s \in Sessions : TxEmbed(s)
    \/ \E s \in Sessions : TxCommit(s)

SpecConcurrent == Init /\ [][NextConcurrent]_vars

NextHandler ==
    \/ HandlerClick
    \/ HandlerIngest
    \/ HandlerNoIngest
    \/ HandlerEmbed
    \/ HandlerSearch
    \/ HandlerSearchFails
    \/ HandlerFallback
    \/ HandlerDirect
    \/ HandlerAsk

SpecHandler == Init /\ [][NextHandler]_vars

Next ==
    \/ UpsertDocument
    \/ IngestPdf

Spec == Init /\ [][Next]_vars

\* A search leaves the tables as they are: the runs of SpecSearch are
\* followed up to their first search
NextSearch ==
    \/ last.op # "search" /\ IngestPdf
    \/ last.op # "search" /\ Search

SpecSearch == Init /\ [][NextSearch]_vars

InitChunk ==
    /\ CkInit
    /\ docs = {}
    /\ chunks = {}
    /\ nextDocId = 1
    /\ nextChunkId = 1
    /\ last = NoCall
    /\ ct = CtIdle
    /\ ao = AoIdle
    /\ em = EmIdle
    /\ ui = UiIdle
    /\ tx = TxIdle

SpecChunk == InitChunk /\ [][NextChunk]_vars

InitChunkText ==
    /\ CtInit
    /\ docs = {}
    /\ chunks = {}
    /\ nextDocId = 1
    /\ nextChunkId = 1
    /\ last = NoCall
    /\ ck = CkIdle
    /\ ao = AoIdle
    /\ em = EmIdle
    /\ ui = UiIdle
    /\ tx = TxIdle

SpecChunkText == InitChunkText /\ [][NextChunkText]_vars

InitAnswer ==
    /\ AoInit
    /\ docs = {}
    /\ chunks = {}
    /\ nextDocId = 1
    /\ nextChunkId = 1
    /\ last = NoCall
    /\ ck = CkIdle
    /\ ct = CtIdle
    /\ em = EmIdle
    /\ ui = UiIdle
    /\ tx = TxIdle

SpecAnswer == InitAnswer /\ [][NextAnswer]_vars

InitEmbed ==
    /\ EmInit
    /\ docs = {}
    /\ chunks = {}
    /\ nextDocId = 1
    /\ nextChunkId = 1
    /\ last = NoCall
    /\ ck = CkIdle
    /\ ct = CtIdle
    /\ ao = AoIdle
    /\ ui = UiIdle
    /\ tx = TxIdle

SpecEmbed == InitEmbed /\ [][NextEmbed]_vars

----------------------------------------------------------------------------
(* Properties of the store *)

IsIngest(l) == l.op = "ingest_pdf"
IsUpsert(l) == l.op = "upsert_document"

\* The chunks simple_overlap_chunk gives for the text of the file of call l
ExpectedChunks(l) ==
    simple_overlap_chunk(ExtractText(l.content), l.chunk_size, l.overlap)

\* chunk_index values are exactly 0..n-1, each once
Contiguous(rows) ==
    /\ {c.chunk_index : c \in rows} = 0..(Cardinality(rows) - 1)
    /\ \A c1, c2 \in rows : c1.chunk_index = c2.chunk_index => c1 = c2

\* C1 as claimed: an ingest_pdf of a path that the call before it ingested,
\* with the file unchanged (the stored hash is the file's hash), returns
\* (number of chunks stored, False) and leaves the chunk rows as they were.
C1_ReingestIdempotentAlways ==
    [][ (IsIngest(last) /\ ~last.raised
         /\ IsIngest(last') /\ ~last'.raised
         /\ last'.path = last.path /\ last'.content = last.content
         /\ PreSameHash(last'.path, last'.content_hash))
        => /\ last'.added = PreCount(last'.path)
           /\ last'.changed = FALSE
           /\ chunks' = chunks ]_vars

\* C1 amended: an ingest_pdf of a path whose stored hash equals the file's
\* hash and whose document has at least one chunk returns (number of chunks
\* stored, False), calls no embedder and leaves both tables as they were.
C1_ReingestIdempotentWithChunks ==
    [][ (IsIngest(last') /\ PreSameHash(last'.path, last'.content_hash)
         /\ PreCount(last'.path) > 0)
        => /\ ~last'.raised
           /\ ~last'.embedder_called
           /\ last'.added = PreCount(last'.path)
           /\ last'.changed = FALSE
           /\ chunks' = chunks
           /\ docs' = docs ]_vars

C1_Witness ==
    /\ IsIngest(last) /\ last.pre_same_hash /\ last.pre_count = 2
    /\ last.added = 2 /\ ~last.changed

\* C2 as claimed: when the embedder returns fewer vectors than there are
\* chunks, ingest_pdf raises and the document is left without chunk rows of
\* the failed batch.
C2_EmbedderFailureIsAtomic ==
    (IsIngest(last) /\ last.embedder_called /\ ~last.embedder_raised
     /\ last.n_vectors < last.n_texts)
    => /\ last.raised
       /\ ChunksOf(chunks, last.doc_id) = {}

\* C3: an ingest_pdf that returns, for a path whose stored hash differs from
\* the file's, leaves none of the path's earlier chunk rows (nor their ids)
\* and a chunk set indexed exactly 0..n-1; and after every call every
\* document's chunk set is indexed exactly 0..n-1.
C3_ChangedFileReplacesChunks ==
    [][ /\ \A d \in docs' : Contiguous(ChunksOf(chunks', d.id))
        /\ (IsIngest(last') /\ ~last'.raised /\ PreExists(last'.path)
            /\ ~PreSameHash(last'.path, last'.content_hash))
           => LET old == PreChunks(last'.path)
                  new == ChunksOf(chunks', last'.doc_id)
              IN /\ new \cap old = {}
                 /\ {c.id : c \in new} \cap {c.id : c \in old} = {}
                 /\ chunks' \cap old = {}
                 /\ Cardinality(new) = last'.added
                 /\ Contiguous(new) ]_vars

C3_Witness ==
    /\ IsIngest(last) /\ ~last.raised /\ last.pre_exists /\ ~last.pre_same_hash
    /\ last.pre_count > 0 /\ last.added = 2

\* C4: upsert_document given the hash already stored for the path changes no
\* row of either table and returns changed = False.
C4_UpsertSameHashNoMutation ==
    [][ (IsUpsert(last') /\ PreSameHash(last'.path, last'.content_hash))
        => /\ docs' = docs
           /\ chunks' = chunks
           /\ last'.changed = FALSE ]_vars

C4_Witness ==
    /\ IsUpsert(last) /\ last.pre_same_hash /\ last.pre_count > 0
    /\ \E d \in get_document_by_path(docs, last.path) : d.title # last.title

\* C5: upsert_document given a hash other than the one stored for an existing
\* path stores the new hash, leaves the document without chunks, keeps its id,
\* file_path and title, touches no other document, and returns changed = True.
C5_UpsertNewHashClearsChunks ==
    [][ (IsUpsert(last') /\ PreExists(last'.path)
         /\ ~PreSameHash(last'.path, last'.content_hash))
        => \E d \in get_document_by_path(docs, last'.path) :
             /\ docs' = (docs \ {d}) \cup {[d EXCEPT !.content_hash = last'.content_hash]}
             /\ chunks' = chunks \ ChunksOf(chunks, d.id)
             /\ last'.doc_id = d.id
             /\ last'.session_count = 0
             /\ last'.changed = TRUE ]_vars

C5_Witness ==
    /\ IsUpsert(last) /\ last.pre_exists /\ ~last.pre_same_hash
    /\ last.pre_count > 0 /\ last.changed
    /\ Cardinality(chunks) > 0

\* C6: there is never more than one document per path; a returning call for a
\* path without a document inserts exactly one and returns changed = True, and
\* a call for a path with a document reuses it and inserts none.
C6_OneDocumentPerPath ==
    [][ /\ \A p \in Paths : Cardinality(get_document_by_path(docs', p)) <= 1
        /\ ((IsUpsert(last') \/ IsIngest(last')) /\ ~last'.raised)
           => IF ~PreExists(last'.path)
              THEN /\ \E d \in docs' : /\ d \notin docs
                                       /\ d.file_path = last'.path
                                       /\ d.id = last'.doc_id
                                       /\ docs' = docs \cup {d}
                   /\ last'.changed = TRUE
              ELSE /\ {d.id : d \in docs'} = {d.id : d \in docs}
                   /\ \E d \in get_document_by_path(docs, last'.path) :
                        last'.doc_id = d.id ]_vars

C6_Witness ==
    /\ IsUpsert(last) /\ last.pre_exists /\ Cardinality(docs) = 2
    /\ \A p \in Paths : Cardinality(get_document_by_path(docs, p)) = 1

\* C7 as claimed: an ingest_pdf of a document without chunks returns
\* (N, True) with N the number of chunks simple_overlap_chunk gives for the
\* text, commits exactly N rows, and the next ingest_pdf of the same unchanged
\* file returns (N, False).
C7_FirstIngestThenCached ==
    [][ /\ (IsIngest(last') /\ ~last'.raised /\ PreCount(last'.path) = 0)
           => /\ last'.added = Len(ExpectedChunks(last'))
              /\ last'.changed = TRUE
              /\ Cardinality(ChunksOf(chunks', last'.doc_id)) = Len(ExpectedChunks(last'))
        /\ (IsIngest(last) /\ ~last.raised /\ last.pre_count = 0
            /\ IsIngest(last') /\ ~last'.raised
            /\ last'.path = last.path /\ last'.content = last.content)
           => /\ last'.added = Len(ExpectedChunks(last))
              /\ last'.changed = FALSE ]_vars

----------------------------------------------------------------------------
(* Properties of the chunker *)

\* The first chunk whole, every later chunk without its first `overlap`
\* characters, concatenated
RECURSIVE Reconstruct(_, _)
Reconstruct(chs, overlap) ==
    IF chs = <<>> THEN <<>>
    ELSE IF Len(chs) = 1 THEN chs[1]
    ELSE Reconstruct(SubSeq(chs, 1, Len(chs) - 1), overlap)
         \o PySlice(chs[Len(chs)], overlap, Len(chs[Len(chs)]))

\* C8: for a non-empty text and chunk_size > overlap >= 0 the chunks returned,
\* the first whole and the later ones without their first `overlap`
\* characters, concatenate to the normalized text.
C8_TotalCoverage ==
    (ck.pc = "done" /\ ck.text # <<>> /\ ck.overlap >= 0 /\ ck.chunk_size > ck.overlap)
    => Reconstruct(ck.loop.chunks, ck.overlap) = Normalize(ck.text)

C8_Witness ==
    /\ ck.pc = "done" /\ ck.overlap = 1 /\ ck.chunk_size = 2
    /\ Len(ck.loop.chunks) = 2
    /\ "NUL" \in {ck.text[i] : i \in 1..Len(ck.text)}
    /\ ck.norm # ck.text

\* C9: for the empty text the chunker returns the empty list, whatever
\* chunk_size and overlap are.
C9_EmptyTextNoChunks ==
    (ck.pc = "done" /\ ck.text = <<>>) => ck.loop.chunks = <<>>

C9_Witness ==
    /\ ck.pc = "done" /\ ck.text = <<>> /\ ck.loop.chunks = <<>>
    /\ ck.overlap >= ck.chunk_size /\ ck.chunk_size >= 1

----------------------------------------------------------------------------
(* Properties of search *)

\* The rows the last search ranged over and did not return
NotReturned(l) ==
    {r \in Candidates(chunks, docs, l.paths_given, l.paths) :
        \A i \in 1..Len(l.rows) : l.rows[i] # r.chunk.id}

\* C10: a search returns at most k results, in ascending distance, and no
\* row it ranged over and left out is nearer than a row it returned.
C10_SearchTopK ==
    last.op = "search"
    => /\ Len(last.results) <= last.k
       /\ \A i, j \in 1..Len(last.results) :
            i < j => last.results[i].distance <= last.results[j].distance
       /\ \A i \in 1..Len(last.results) : \A r \in NotReturned(last) :
            last.results[i].distance <= cosine_distance(r.chunk.embedding, last.q)

C10_Witness ==
    /\ last.op = "search" /\ last.k = 2 /\ Len(last.results) = 2
    /\ last.results[1].distance < last.results[2].distance
    /\ \E r \in NotReturned(last) :
         last.results[2].distance < cosine_distance(r.chunk.embedding, last.q)

\* The paths of the documents the results of the last search belong to
ResultPaths(l) == {l.results[i].file_path : i \in 1..Len(l.results)}

\* C11 as stated: whenever a document_paths argument is passed to search, the
\* empty sequence included, every result belongs to a document whose
\* file_path is in document_paths.
C11_FilterWheneverPassed ==
    (last.op = "search" /\ last.paths_given) => ResultPaths(last) \subseteq last.paths

\* C11 amended: a non-empty document_paths restricts the results to the
\* documents it names, up to k of their chunks; a search with document_paths
\* omitted or empty is global, up to k of all the stored chunks.
C11_FilterWhenNonEmpty ==
    last.op = "search"
    => IF last.paths_given /\ last.paths # {}
       THEN /\ ResultPaths(last) \subseteq last.paths
            /\ Len(last.results) =
                 Min(last.k, Cardinality({c \in chunks : \E d \in docs :
                        d.id = c.document_id /\ d.file_path \in last.paths}))
       ELSE Len(last.results) = Min(last.k, Cardinality(Joined(chunks, docs)))

C11_Witness ==
    /\ last.op = "search" /\ last.paths_given /\ last.paths = {"/d/a.pdf"}
    /\ last.k = 2 /\ Len(last.results) = 1
    /\ \E c \in chunks : \E d \in docs :
         /\ d.id = c.document_id /\ d.file_path = "/d/b.pdf"
         /\ cosine_distance(c.embedding, last.q) < last.results[1].distance

----------------------------------------------------------------------------
(* Properties of the windows of simple_overlap_chunk *)

\* A pass of the loop that appends a window
AppendsWindow ==
    /\ ck.pc = "loop" /\ ck'.pc = "loop"
    /\ Len(ck'.loop.chunks) = Len(ck.loop.chunks) + 1

\* A pass of the loop that leaves it without a window
LeavesWithoutWindow ==
    /\ ck.pc = "loop" /\ ck'.pc = "loop"
    /\ ~ck.loop.done /\ ck'.loop.done
    /\ Len(ck'.loop.chunks) = Len(ck.loop.chunks)

\* C17: for chunk_size > overlap >= 0 the first window starts at 0, every
\* window is the slice of the normalized text from its start, every window
\* but the last is chunk_size long, the next window starts at the previous
\* end minus overlap, which is further on than the previous start, and the
\* loop is left only by a window that ends at the end of the normalized text
\* (or at once, when the normalized text is empty).
C17_WindowSteps ==
    [][(ck.chunk_size > ck.overlap /\ ck.overlap >= 0)
       => /\ AppendsWindow
             => LET start == ck.loop.start
                    w     == ck'.loop.chunks[Len(ck'.loop.chunks)]
                    end   == start + Len(w)
                IN /\ ck.loop.chunks = <<>> => start = 0
                   /\ w = PySlice(ck.norm, start, end)
                   /\ Len(w) >= 1
                   /\ IF ck'.loop.done
                      THEN end = Len(ck.norm)
                      ELSE /\ Len(w) = ck.chunk_size
                           /\ ck'.loop.start = end - ck.overlap
                           /\ ck'.loop.start > start
          /\ LeavesWithoutWindow => (ck.loop.chunks = <<>> /\ ck.norm = <<>>)]_vars

C17_Witness ==
    /\ ck.pc = "done" /\ ck.chunk_size = 3 /\ ck.overlap = 1
    /\ Len(ck.norm) = 4 /\ Len(ck.loop.chunks) = 2
    /\ Len(ck.loop.chunks[1]) = 3 /\ Len(ck.loop.chunks[2]) = 2

\* C18: for every text, chunk_size >= 1 and overlap >= 0 the window start is
\* never negative and the call terminates: a pass that stays in the loop
\* moves the start forward (the pass depends on the start alone, so a start
\* that does not advance is taken again without end).
C18_TerminatesNoNegativeStart ==
    [][(ck.pc = "loop" /\ ck'.pc = "loop" /\ ck.chunk_size >= 1 /\ ck.overlap >= 0)
       => /\ ck'.loop.start >= 0
          /\ ~ck'.loop.done => ck'.loop.start > ck.loop.start]_vars

----------------------------------------------------------------------------
(* Properties of chunk_text *)

\* C16: for a text at or above the token threshold chunk_text returns at most
\* MAX_TOTAL_CHUNKS chunks, and when the sentences gave more than that, the
\* chunks returned are the unmerged ones joined in order: both lists
\* concatenate to the same text.
C16_CapAndMerge ==
    (ct.pc = "done" /\ Len(ct.text) >= TOKEN_ESTIMATE_RATIO * TokenThreshold)
    => /\ Len(ct.result) <= MAX_TOTAL_CHUNKS
       /\ Len(ct.greedy) > MAX_TOTAL_CHUNKS
          => /\ JoinWith(ct.result, <<>>) = JoinWith(ct.greedy, <<>>)
             /\ \A i \in 1..Len(ct.result) : ct.result[i] # <<>>

C16_Witness ==
    /\ ct.pc = "done"
    /\ Len(ct.greedy) = 7 /\ Len(ct.result) = 4
    /\ ct.result[1] = ct.greedy[1] \o ct.greedy[2]
    /\ ct.result[4] = ct.greedy[7]
    /\ ct.greedy[1] # ct.greedy[2]

----------------------------------------------------------------------------
(* Properties of ask_ollama *)

\* The streamlit ask_ollama has returned, or waits for ever
AskFinished == ao.fn = "streamlit" /\ ao.pc \in {"done", "hung"}

\* The calls of one kind among the calls made, as indices into ao.calls
CallsOfKind(kind) == {j \in 1..Len(ao.calls) : ao.calls[j].kind = kind}

\* text is a run of consecutive characters of prompt
Carries(prompt, text) ==
    \E k \in 0..(Len(prompt) - Len(text)) : SubSeq(prompt, k + 1, k + Len(text)) = text

\* The call gave a response that is not empty once trimmed
GaveResponse(call) ==
    call.outcome = "ok" /\ Strip(GetResponse(call.reply)) # <<>>

\* C12 as stated: the streamlit ask_ollama makes exactly one generation call
\* for the empty context, and exactly one, with the whole context in its
\* prompt, for a non-empty context below the token threshold.
C12_OneCallBelowThreshold ==
    (AskFinished /\ Len(ao.context) < TOKEN_ESTIMATE_RATIO * TokenThreshold)
    => /\ Len(ao.calls) = 1
       /\ ao.context # <<>> => Carries(ao.calls[1].request.json.prompt, ao.context)

\* C12 amended: exactly one call for the empty context; for a non-empty
\* context below the threshold exactly one per-chunk call, with the whole
\* context in its prompt, followed by exactly one summarization call when
\* that call gave a non-empty response and by no call otherwise.
C12_OneChunkCallBelowThreshold ==
    (AskFinished /\ Len(ao.context) < TOKEN_ESTIMATE_RATIO * TokenThreshold)
    => IF ao.context = <<>>
       THEN Len(ao.calls) = 1 /\ ao.calls[1].kind = "single"
       ELSE /\ CallsOfKind("chunk") = {1}
            /\ Carries(ao.calls[1].request.json.prompt, ao.context)
            /\ IF GaveResponse(ao.calls[1])
               THEN Len(ao.calls) = 2 /\ ao.calls[2].kind = "summary"
               ELSE Len(ao.calls) = 1

C12_Witness ==
    /\ AskFinished /\ ao.pc = "done"
    /\ ao.context = <<"a", "a", ".", "a", "a">>
    /\ Len(ao.calls) = 2
    /\ ao.calls[2].kind = "summary" /\ ao.calls[2].outcome = "ok"

\* C14: once the streamlit ask_ollama has gone through the chunks of a
\* non-empty context, it makes the summarization call, one and as its last
\* call, if and only if some chunk gave a non-empty response; when none
\* did it returns the "Could not process" string.
C14_SummarizeIffSomeResponse ==
    (AskFinished /\ ao.context # <<>>)
    => LET produced == {j \in CallsOfKind("chunk") : GaveResponse(ao.calls[j])}
       IN /\ (CallsOfKind("summary") # {}) <=> (produced # {})
          /\ CallsOfKind("summary") \subseteq {Len(ao.calls)}
          /\ produced = {} => (ao.pc = "done" /\ ao.result = CouldNotProcess)
          /\ produced # {} => ao.result # CouldNotProcess

C14_Witness ==
    /\ AskFinished /\ ao.pc = "done"
    /\ Len(ao.chunks) = 3 /\ Len(ao.calls) = 3
    /\ ao.calls[1].outcome = "ok" /\ ao.calls[1].reply.response = <<" ">>
    /\ ao.calls[2].outcome = "Timeout"
    /\ ao.calls[3].outcome = "HTTPError"
    /\ ao.result = CouldNotProcess

\* The non-empty trimmed responses of the first n calls, in order
RECURSIVE ResponsesOf(_, _)
ResponsesOf(calls, n) ==
    IF n = 0 THEN <<>>
    ELSE LET before == ResponsesOf(calls, n - 1)
         IN IF calls[n].kind = "chunk" /\ GaveResponse(calls[n])
            THEN Append(before, Strip(GetResponse(calls[n].reply)))
            ELSE before

\* C15: the j-th call of the loop is the request of the j-th chunk, whatever
\* the calls before it gave; once the loop is over every chunk has had its
\* one call, and the responses collected are the non-empty responses of the
\* calls that succeeded, in chunk order.
C15_EveryChunkOnceInOrder ==
    (ao.fn = "streamlit" /\ ao.pc \in {"loop", "done", "hung"} /\ ao.context # <<>>)
    => LET n == Cardinality(CallsOfKind("chunk"))
       IN /\ CallsOfKind("chunk") = 1..n
          /\ \A j \in 1..n :
               /\ ao.calls[j].chunk = j
               /\ ao.calls[j].request = ChunkRequest(ao.chunks[j], ao.question)
          /\ (ao.pc # "loop" \/ ao.i > Len(ao.chunks)) => n = Len(ao.chunks)
          /\ ao.responses = ResponsesOf(ao.calls, n)

C15_Witness ==
    /\ AskFinished /\ ao.pc = "done"
    /\ Len(ao.chunks) = 4 /\ Len(ao.calls) = 5
    /\ ao.calls[1].outcome = "HTTPError"
    /\ ao.calls[2].outcome = "ok" /\ ao.calls[2].reply.response = <<" ", "y", " ">>
    /\ ao.calls[3].outcome = "ok" /\ ~ao.calls[3].reply.has_response
    /\ ao.calls[4].outcome = "ok" /\ ao.calls[4].reply.response = <<"x">>
    /\ ao.responses = << <<"y">>, <<"x">> >>

\* C19: every generation request, of the streamlit ask_ollama (single-shot,
\* per-chunk, summarization) and of the CLI ask_ollama, has a body with
\* model, prompt and stream = false.
C19_RequestsCarryModelPromptStream ==
    \A j \in 1..Len(ao.calls) :
        LET body == ao.calls[j].request.json
        IN /\ {"model", "prompt", "stream"} \subseteq DOMAIN body
           /\ body.stream = FALSE

\* C20: every call of the streamlit ask_ollama has a timeout, no call waits
\* for ever, and at most (number of chunks + 1) calls are made.
C20_EveryCallTimesOut ==
    ao.fn = "streamlit"
    => /\ \A j \in 1..Len(ao.calls) : "timeout" \in DOMAIN ao.calls[j].request
       /\ ao.pc # "hung"
       /\ Len(ao.calls) <= Len(ao.chunks) + 1

----------------------------------------------------------------------------
(* Properties of embed_texts *)

\* The embedding a reply holds under one of the three names, None when
\* the reply is an error, has none of the names, or holds an empty array
ReplyEmbedding(reply) ==
    IF reply.kind # "ok" THEN None
    ELSE IF "embedding" \in DOMAIN reply.data /\ reply.data.embedding # <<>>
    THEN Some(reply.data.embedding)
    ELSE IF "embeddings" \in DOMAIN reply.data /\ reply.data.embeddings # <<>>
    THEN Some(reply.data.embeddings)
    ELSE IF /\ "data" \in DOMAIN reply.data /\ reply.data.data # <<>>
            /\ "embedding" \in DOMAIN reply.data.data[1]
            /\ reply.data.data[1].embedding # <<>>
    THEN Some(reply.data.data[1].embedding)
    ELSE None

\* The reply is a failure the claim names: no answer in time, connection
\* refused, an HTTP error, or a body with none of the three fields
ReplyFailed(reply) ==
    \/ reply.kind # "ok"
    \/ /\ DOMAIN reply.data \cap {"embedding", "embeddings"} = {}
       /\ "data" \in DOMAIN reply.data
          => (reply.data.data = <<>> \/ "embedding" \notin DOMAIN reply.data.data[1])

\* C13: when embed_texts has returned, the j-th call was for the j-th text;
\* if every text had its call and every call gave an embedding, the result
\* has these embeddings, one per text in the order of the texts; if some
\* call failed the result is the empty list; and the result is never a
\* non-empty list shorter than the texts.
C13_AllOrNothing ==
    em.pc = "done"
    => /\ \A j \in 1..Len(em.calls) : em.calls[j].request.json.prompt = em.texts[j]
       /\ (/\ Len(em.calls) = Len(em.texts)
           /\ \A j \in 1..Len(em.calls) : ~ReplyEmbedding(em.calls[j].reply).is_none)
          => /\ Len(em.result) = Len(em.texts)
             /\ \A j \in 1..Len(em.texts) :
                  em.result[j] = ReplyEmbedding(em.calls[j].reply).val
       /\ (\E j \in 1..Len(em.calls) : ReplyFailed(em.calls[j].reply))
          => em.result = <<>>
       /\ em.result = <<>> \/ Len(em.result) = Len(em.texts)

C13_Witness ==
    /\ em.pc = "done" /\ Len(em.texts) = 3 /\ Len(em.calls) = 3
    /\ em.embeddings = << <<0, 1>>, <<1, 0>> >>
    /\ em.calls[3].outcome = "Timeout"
    /\ em.result = <<>>

----------------------------------------------------------------------------
(* Properties of a second ingest_pdf *)

\* C22: an ingest_pdf of a path whose document is stored with the file's
\* hash and no chunks (as an earlier ingest_pdf leaves it when its embedder
\* gave no vectors) does not return from the cache: it chunks the text again
\* and calls the embedder with the chunks, and when the embedder gives a
\* vector for every chunk the document ends with exactly these chunks,
\* indexed 0..n-1 in order.
C22_EmptyDocumentIsReingested ==
    (IsIngest(last) /\ last.pre_exists /\ last.pre_same_hash /\ last.pre_count = 0)
    => /\ last.embedder_called
       /\ last.n_texts = Len(ExpectedChunks(last))
       /\ (~last.raised /\ last.n_vectors = last.n_texts)
          => LET rows == ChunksOf(chunks, last.doc_id)
                 want == ExpectedChunks(last)
             IN /\ Cardinality(rows) = Len(want)
                /\ Contiguous(rows)
                /\ \A c \in rows : c.text = want[c.chunk_index + 1]
                /\ last.added = Len(want)

C22_Witness ==
    /\ IsIngest(last) /\ last.pre_exists /\ last.pre_same_hash /\ last.pre_count = 0
    /\ last.embedder_called /\ ~last.raised
    /\ last.n_texts = 2 /\ last.n_vectors = 2
    /\ Cardinality(ChunksOf(chunks, last.doc_id)) = 2

----------------------------------------------------------------------------
(* Properties of the button handler *)

\* C21: on the RAG path with a PDF selected, once ingest_pdf has returned
\* the handler embeds the question, searches, builds the context from the
\* results and gives it to ask_ollama, unless the embedding or the search
\* fails; and it falls back to the text of the PDF only when ingest_pdf,
\* embed_texts or search failed.
C21_RagPathProceeds ==
    (ui.pc = "done" /\ ui.asked /\ ui.use_rag /\ ui.rag_available
     /\ ui.selected_pdf # NoPdf)
    => /\ ui.ingest = "returned"
          => /\ SubSeq(ui.steps, 1, 2) = <<"ingest_pdf", "embed_texts">>
             /\ ui.failed = ""
                => /\ ui.steps = <<"ingest_pdf", "embed_texts", "search",
                                   "context", "ask_ollama">>
                   /\ ui.context = BuildContext(last.results)
       /\ (\E i \in 1..Len(ui.steps) : ui.steps[i] = "get_pdf_text")
          => ui.failed \in {"ingest_pdf", "embed_texts", "search"}

----------------------------------------------------------------------------
(* C23: two interleaved ingest_pdf sessions of one path                    *)

BothCommitted == \A s \in Sessions : tx[s].pc = "done" /\ tx[s].committed

DocsOfPath == get_document_by_path(docs, ConcPath)

\* The chunk rows of the store that session s inserted
RowsOf(s) == {c \in chunks : c.id \in tx[s].inserted}

\* C23 as stated: after two interleaved ingest_pdf sessions of the same path
\* have both committed, the store holds at most one Document for the path,
\* and the chunk_index values of that document's chunk rows are pairwise
\* distinct and form 0..n-1.
C23_OneDocumentContiguousChunks ==
    BothCommitted
    => /\ Cardinality(DocsOfPath) <= 1
       /\ \A d \in DocsOfPath : Contiguous(ChunksOf(chunks, d.id))

\* C23, amended: after two interleaved ingest_pdf sessions of the same path
\* have both committed, the store holds at most one Document for the path,
\* every chunk row in the store belongs to it, and the rows each session
\* inserted that are still in the store are all of that session's rows, with
\* pairwise distinct chunk_index values forming 0..n-1; the rows of both
\* sessions can remain side by side, a chunk_index value then occurring twice.
C23_OneDocumentContiguousPerSession ==
    BothCommitted
    => /\ Cardinality(DocsOfPath) <= 1
       /\ \A c \in chunks : \E d \in DocsOfPath : c.document_id = d.id
       /\ \A s \in Sessions :
            \/ RowsOf(s) = {}
            \/ /\ Cardinality(RowsOf(s)) = tx[s].added
               /\ Contiguous(RowsOf(s))
               /\ \A c \in RowsOf(s) : \A d \in DocsOfPath : c.document_id = d.id

\* Both sessions have committed chunks of the one Document of the path, and
\* the rows of both are in the store
C23_Witness ==
    /\ BothCommitted
    /\ Cardinality(DocsOfPath) = 1
    /\ \A s \in Sessions : RowsOf(s) # {} /\ Cardinality(RowsOf(s)) = tx[s].added
    /\ \E s \in Sessions : tx[s].to_delete # {}

====
